---------------------------- MODULE Spec2Model ----------------------------
(***************************************************************************)
(* Model of the AMM transaction orchestrator (src/amm/create_amm.py).      *)
(*                                                                         *)
(* One behaviour is one call of one of the module's entry points           *)
(* (waitForTransaction, createAmmApp, setupAmmApp, optInToPoolToken,       *)
(* supply) against an algod node.  The node is the environment: every      *)
(* client call either raises an upstream error or answers with a value     *)
(* drawn from a small set.  A Python dict is a function whose DOMAIN is    *)
(* the set of keys present; JSON null / Python None is the empty tuple     *)
(* and a present number n is the one-element tuple <<n>> wherever a value  *)
(* may be None.                                                            *)
(***************************************************************************)
EXTENDS Integers, Sequences, FiniteSets, TLC

(* ----------------------------- bounds ---------------------------------- *)
MaxTimeout == 3          \* round budgets tried for a direct waitForTransaction call
MaxRound == 1            \* last-round values the node may report
MaxAsset == 2            \* asset ids 1..MaxAsset
MaxAppId == 1            \* application ids 1..MaxAppId
MaxAmount == 1           \* supplied quantities 0..MaxAmount
MaxConfirmedRound == 1   \* confirmed-round values 0..MaxConfirmedRound
MaxEntries == 2          \* length of the global-state list

(* ------------------------ program constants ---------------------------- *)
DefaultTimeout == 10
MinAccountBalance == 100000
PerAssetMinBalance == 100000
PerAssetReserve == 1000
SupplyFee == 2000
GlobalUints == 7
GlobalByteSlices == 1

MIN_BALANCE_REQUIREMENT == MinAccountBalance + PerAssetMinBalance * 3

(* ------------------------------ values --------------------------------- *)
Accounts == {"ADDR1", "ADDR2"}
PrivateKeys == {"SK1"}
PoolErrors == {"", "overspend"}
Assets == 1..MaxAsset
AppIds == 1..MaxAppId
Amounts == 0..MaxAmount
FeeBps == {30}
MinIncrements == {1000}

None == << >>
EmptyDict == << >>

HasKey(d, k) == k \in DOMAIN d
Get(d, k, default) == IF HasKey(d, k) THEN d[k] ELSE default

\* Python truthiness of a string
Truthy(s) == s # ""

\* int.to_bytes(8, "big")
RECURSIVE ShiftBytes(_, _)
ShiftBytes(n, k) == IF k = 0 THEN n ELSE ShiftBytes(n \div 256, k - 1)
ToBytes8(n) == [i \in 1..8 |-> ShiftBytes(n, 8 - i) % 256]

\* encoding.decode_address: the public key behind an address
DecodeAddress(a) == [pk |-> a]

\* get_application_address: the escrow address derived from the app id
get_application_address(appID) == [escrow |-> appID]

\* client.compile + b64decode of the result
Compile(program) == [bytecode |-> program]

\* base64.b64decode on the keys the contract stores
B64Decode(k) ==
    CASE k = "cG9vbF90b2tlbl9rZXk=" -> "pool_token_key"
      [] k = "dG9rZW5fYV9rZXk=" -> "token_a_key"
      [] k = "dG9rZW5fYl9rZXk=" -> "token_b_key"
      [] OTHER -> "?"

EncodedKeys == {"cG9vbF90b2tlbl9rZXk=", "dG9rZW5fYV9rZXk="}

(* ---------------------------- transactions ----------------------------- *)
ApplicationCreateTxn(creator, tokenA, tokenB, feeBps, minIncrement, approval, clear, sp) ==
    [type |-> "appl", sender |-> creator, index |-> 0, on_complete |-> "NoOp",
     approval_program |-> approval, clear_program |-> clear,
     global_schema |-> [num_uints |-> GlobalUints, num_byte_slices |-> GlobalByteSlices],
     local_schema |-> [num_uints |-> 0, num_byte_slices |-> 0],
     app_args |-> <<DecodeAddress(creator), ToBytes8(tokenA), ToBytes8(tokenB),
                    ToBytes8(feeBps), ToBytes8(minIncrement)>>,
     sp |-> sp, group |-> None]

PaymentTxn(sender, receiver, amt, sp) ==
    [type |-> "pay", sender |-> sender, receiver |-> receiver, amt |-> amt,
     sp |-> sp, group |-> None]

AssetTransferTxn(sender, receiver, index, amt, sp) ==
    [type |-> "axfer", sender |-> sender, receiver |-> receiver, index |-> index,
     amt |-> amt, sp |-> sp, group |-> None]

AssetOptInTxn(sender, index, sp) ==
    AssetTransferTxn(sender, sender, index, 0, sp)

ApplicationCallTxn(sender, index, app_args, foreign_assets, sp) ==
    [type |-> "appl", sender |-> sender, index |-> index, on_complete |-> "NoOp",
     app_args |-> app_args, foreign_assets |-> foreign_assets,
     sp |-> sp, group |-> None]

\* transaction.calculate_group_id: a digest of the member list
GroupDigest(ts) == <<[digest |-> ts]>>

\* transaction.assign_group_id: every member gets the digest of the list
assign_group_id(ts) == [i \in 1..Len(ts) |-> [ts[i] EXCEPT !.group = GroupDigest(ts)]]

\* Transaction.sign
Sign(t, key) == [transaction |-> t, signature |-> key]

\* SignedTransaction.get_txid
get_txid(st) == [txid |-> st.transaction]

(* ------------------------- node answers -------------------------------- *)
\* suggested_params(): the node's fee and validity window
SuggestedParams == {[fee |-> 1000, first |-> 1, last |-> 1001]}

ConfirmedRoundFields ==
    {EmptyDict} \cup {("confirmed-round" :> n) : n \in 0..MaxConfirmedRound}
PoolErrorFields ==
    {EmptyDict} \cup {("pool-error" :> e) : e \in PoolErrors}
\* application-index: absent, null, or a number
AppIndexFields ==
    {EmptyDict} \cup {("application-index" :> v) : v \in {None} \cup {<<n>> : n \in -1..MaxAppId}}

\* pending_transaction_info answers; only an application-creating
\* transaction is answered with an application-index
PendingResponses(o) ==
    {c @@ e @@ a : c \in ConfirmedRoundFields, e \in PoolErrorFields,
                   a \in IF o = "create" THEN AppIndexFields ELSE {EmptyDict}}

GlobalStateEntries ==
    {[key |-> k, value |-> [type |-> 2, uint |-> u, bytes |-> ""]] :
        k \in EncodedKeys, u \in 1..MaxAsset}
GlobalStates ==
    UNION {[1..n -> GlobalStateEntries] : n \in 0..MaxEntries}
\* application_info answers: params with or without a global-state list
AppInfos ==
    {[params |-> EmptyDict]} \cup {[params |-> ("global-state" :> gs)] : gs \in GlobalStates}

(* ------------------------------ state ---------------------------------- *)
VARIABLES
    op,           \* entry point being executed
    pc,           \* position in it
    args,         \* its arguments
    txns,         \* transactions built (list handed to assign_group_id)
    signed,       \* signed transactions, in signing order
    sent,         \* submit calls that reached the node, each a list
    txID,         \* waitForTransaction: txID
    timeout,      \* waitForTransaction: timeout
    lastRound,    \* waitForTransaction: lastRound
    startRound,   \* waitForTransaction: startRound
    pending_txn,  \* waitForTransaction: pending_txn
    polls,        \* pending_transaction_info calls made
    waits,        \* status_after_block calls made
    wres,         \* how waitForTransaction ended
    waitRet,      \* what waitForTransaction returned
    glob_state,   \* setupAmmApp: glob_state
    appInfoCalls, \* application_info calls made
    exc,          \* exception that ended the call
    ret,          \* value returned by the call (None or <<int>>)
    firstRejected, \* history: the first answer was unconfirmed with a non-empty pool-error
    allPending,   \* history: every answer so far had confirmed-round 0 and pool-error ""
    confirmedAt   \* history: number of the first poll answered with confirmed-round > 0

vars == <<op, pc, args, txns, signed, sent, txID, timeout, lastRound, startRound,
          pending_txn, polls, waits, wres, waitRet, glob_state, appInfoCalls,
          exc, ret, firstRejected, allPending, confirmedAt>>

buildVars == <<txns, signed, sent>>
waitVars == <<txID, timeout, lastRound, startRound, pending_txn, polls, waits, wres,
              waitRet, firstRejected, allPending, confirmedAt>>
postVars == <<glob_state, appInfoCalls, ret>>

NoException == [kind |-> "none", msg |-> << >>]
Upstream == [kind |-> "Upstream", msg |-> << >>]

Init ==
    /\ op = "none"
    /\ pc = "idle"
    /\ args = EmptyDict
    /\ txns = << >>
    /\ signed = << >>
    /\ sent = << >>
    /\ txID = None
    /\ timeout = 0
    /\ lastRound = 0
    /\ startRound = 0
    /\ pending_txn = EmptyDict
    /\ polls = 0
    /\ waits = 0
    /\ wres = "none"
    /\ waitRet = None
    /\ glob_state = << >>
    /\ appInfoCalls = 0
    /\ exc = NoException
    /\ ret = None
    /\ firstRejected = FALSE
    /\ allPending = TRUE
    /\ confirmedAt = 0

\* an exception propagates to the caller: the call is over
Raise(e) ==
    /\ exc' = e
    /\ pc' = "done"

(* --------------------------- entry points ------------------------------ *)
CallWait ==
    /\ pc = "idle"
    /\ \E t \in 0..MaxTimeout :
        /\ op' = "wait"
        /\ args' = [timeout |-> t]
        /\ txID' = [txid |-> "caller"]
        /\ timeout' = t
    /\ pc' = "w_status"
    /\ UNCHANGED <<buildVars, lastRound, startRound, pending_txn, polls, waits, wres,
                   waitRet, firstRejected, allPending,
                   confirmedAt, postVars, exc>>

CallCreate ==
    /\ pc = "idle"
    /\ \E a \in Assets, b \in Assets, fee \in FeeBps, inc \in MinIncrements,
          creator \in Accounts, key \in PrivateKeys :
        args' = [tokenA |-> a, tokenB |-> b, feeBps |-> fee, minIncrement |-> inc,
                 creator |-> creator, private_key |-> key]
    /\ op' = "create"
    /\ pc' = "c_compile"
    /\ UNCHANGED <<buildVars, waitVars, postVars, exc>>

CallSetup ==
    /\ pc = "idle"
    /\ \E id \in AppIds, a \in Assets, b \in Assets, funder \in Accounts,
          key \in PrivateKeys :
        args' = [appID |-> id, tokenA |-> a, tokenB |-> b, funder |-> funder,
                 private_key |-> key]
    /\ op' = "setup"
    /\ pc' = "build"
    /\ UNCHANGED <<buildVars, waitVars, postVars, exc>>

CallOptIn ==
    /\ pc = "idle"
    /\ \E id \in AppIds, account \in Accounts, key \in PrivateKeys, pool \in Assets :
        args' = [appID |-> id, account |-> account, private_key |-> key,
                 poolToken |-> pool]
    /\ op' = "optin"
    /\ pc' = "build"
    /\ UNCHANGED <<buildVars, waitVars, postVars, exc>>

CallSupply ==
    /\ pc = "idle"
    /\ \E id \in AppIds, qA \in Amounts, qB \in Amounts, supplier \in Accounts,
          key \in PrivateKeys, a \in Assets, b \in Assets, pool \in Assets :
        args' = [appID |-> id, qA |-> qA, qB |-> qB, supplier |-> supplier,
                 private_key |-> key, tokenA |-> a, tokenB |-> b, poolToken |-> pool]
    /\ op' = "supply"
    /\ pc' = "build"
    /\ UNCHANGED <<buildVars, waitVars, postVars, exc>>

(* --------------------------- building ---------------------------------- *)
\* getContracts: two compile calls, approval then clear
CreateCompile ==
    /\ pc = "c_compile"
    /\ \/ Raise(Upstream)
       \/ /\ pc' = "build"
          /\ exc' = exc
    /\ UNCHANGED <<op, args, buildVars, waitVars, postVars>>

fundingAmount_TwoReserves == MIN_BALANCE_REQUIREMENT + PerAssetReserve * 2
fundingAmount == MIN_BALANCE_REQUIREMENT + PerAssetReserve * 3

CreateTxns(a, sp) ==
    <<ApplicationCreateTxn(a.creator, a.tokenA, a.tokenB, a.feeBps, a.minIncrement,
                           Compile("approval"), Compile("clear"), sp)>>

SetupTxns(a, sp) ==
    <<PaymentTxn(a.funder, get_application_address(a.appID), fundingAmount, sp),
      ApplicationCallTxn(a.funder, a.appID, <<"setup">>, <<a.tokenA, a.tokenB>>, sp)>>

OptInTxns(a, sp) ==
    <<AssetOptInTxn(a.account, a.poolToken, sp)>>

SupplyTxns(a, sp) ==
    <<PaymentTxn(a.supplier, get_application_address(a.appID), SupplyFee, sp),
      AssetTransferTxn(a.supplier, get_application_address(a.appID), a.tokenA, a.qA, sp),
      AssetTransferTxn(a.supplier, get_application_address(a.appID), a.tokenB, a.qB, sp),
      ApplicationCallTxn(a.supplier, a.appID, <<"supply">>,
                         <<a.tokenA, a.tokenB, a.poolToken>>, sp)>>

BuildTxns(o, a, sp) ==
    CASE o = "create" -> CreateTxns(a, sp)
      [] o = "setup" -> SetupTxns(a, sp)
      [] o = "optin" -> OptInTxns(a, sp)
      [] o = "supply" -> SupplyTxns(a, sp)

Grouped(o) == o \in {"setup", "supply"}

\* client.suggested_params() and the transaction constructors
Build ==
    /\ pc = "build"
    /\ \/ /\ Raise(Upstream)
          /\ txns' = txns
       \/ \E sp \in SuggestedParams :
            /\ txns' = BuildTxns(op, args, sp)
            /\ pc' = IF Grouped(op) THEN "group" ELSE "sign"
            /\ exc' = exc
    /\ UNCHANGED <<op, args, signed, sent, waitVars, postVars>>

AssignGroup ==
    /\ pc = "group"
    /\ txns' = assign_group_id(txns)
    /\ pc' = "sign"
    /\ UNCHANGED <<op, args, signed, sent, waitVars, postVars, exc>>

\* the sign calls, one transaction per step, in source order
SignNext ==
    /\ pc = "sign"
    /\ Len(signed) < Len(txns)
    /\ signed' = Append(signed, Sign(txns[Len(signed) + 1], args.private_key))
    /\ pc' = IF Len(signed') = Len(txns) THEN "send" ELSE "sign"
    /\ UNCHANGED <<op, args, txns, sent, waitVars, postVars, exc>>

(* --------------------------- submitting -------------------------------- *)
SingleSubmit(s) == <<s[1]>>
SetupSubmit_FirstOnly(s) == <<s[1]>>
SetupSubmit(s) == <<s[1], s[2]>>
SupplySubmit_Reordered(s) == <<s[4], s[1], s[2], s[3]>>
SupplySubmit(s) == <<s[1], s[2], s[3], s[4]>>

Submission(o, s) ==
    CASE o = "setup" -> SetupSubmit(s)
      [] o = "supply" -> SupplySubmit(s)
      [] OTHER -> SingleSubmit(s)

\* the signed transaction whose id is handed to waitForTransaction
WaitedTxn(o, s) == IF o = "supply" THEN s[4] ELSE s[1]

\* client.send_transaction / client.send_transactions: one call
Send ==
    /\ pc = "send"
    /\ sent' = Append(sent, Submission(op, signed))
    /\ \/ /\ Raise(Upstream)
          /\ UNCHANGED <<txID, timeout>>
       \/ /\ txID' = get_txid(WaitedTxn(op, signed))
          /\ timeout' = DefaultTimeout
          /\ pc' = "w_status"
          /\ exc' = exc
    /\ UNCHANGED <<op, args, txns, signed, lastRound, startRound, pending_txn, polls,
                   waits, wres, waitRet, firstRejected, allPending,
                   confirmedAt, postVars>>

(* ------------------------ waitForTransaction --------------------------- *)
\* lastStatus = client.status(); lastRound = startRound = its last-round
WaitStatus ==
    /\ pc = "w_status"
    /\ \/ /\ Raise(Upstream)
          /\ wres' = "Upstream"
          /\ UNCHANGED <<lastRound, startRound>>
       \/ \E r \in 1..MaxRound :
            /\ lastRound' = r
            /\ startRound' = r
            /\ wres' = "running"
            /\ pc' = "w_loop"
            /\ exc' = exc
    /\ UNCHANGED <<op, args, buildVars, txID, timeout, pending_txn, polls, waits,
                   waitRet, firstRejected, allPending,
                   confirmedAt, postVars>>

LoopCond_Inclusive(last, start, budget) == last <= start + budget
LoopCond(last, start, budget) == last < start + budget

PollOutcome_IgnoresPoolError(p) ==
    IF Get(p, "confirmed-round", 0) > 0 THEN "return" ELSE "next"

PollOutcome_PoolErrorFirst(p) ==
    IF ~HasKey(p, "pool-error") THEN "KeyError"
    ELSE IF Truthy(p["pool-error"]) THEN "PoolError"
    ELSE IF Get(p, "confirmed-round", 0) > 0 THEN "return"
    ELSE "next"

\* one pass over the loop body's tests on a pending_transaction_info answer
PollOutcome(p) ==
    IF Get(p, "confirmed-round", 0) > 0 THEN "return"
    ELSE IF ~HasKey(p, "pool-error") THEN "KeyError"
    ELSE IF Truthy(p["pool-error"]) THEN "PoolError"
    ELSE "next"

PoolError(p) == [kind |-> "PoolError", msg |-> <<p["pool-error"]>>]
KeyError(k) == [kind |-> "KeyError", msg |-> <<k>>]
TimeoutError(id, budget) == [kind |-> "Timeout", msg |-> <<id, budget>>]

\* where the caller goes on after waitForTransaction returned
AfterWait(o) ==
    CASE o = "create" -> "c_assert"
      [] o = "setup" -> "s_appinfo"
      [] OTHER -> "done"

IsConfirmedAnswer(p) ==
    HasKey(p, "confirmed-round") /\ p["confirmed-round"] > 0

IsRejection(p) ==
    /\ Get(p, "confirmed-round", 0) = 0
    /\ HasKey(p, "pool-error") /\ p["pool-error"] # ""

IsPendingEmpty(p) ==
    /\ HasKey(p, "confirmed-round") /\ p["confirmed-round"] = 0
    /\ HasKey(p, "pool-error") /\ p["pool-error"] = ""

WaitPoll ==
    /\ pc = "w_loop"
    /\ LoopCond(lastRound, startRound, timeout)
    /\ polls' = polls + 1
    /\ \/ /\ Raise(Upstream)
          /\ wres' = "Upstream"
          /\ UNCHANGED <<pending_txn, waitRet, firstRejected, allPending, confirmedAt>>
       \/ \E p \in PendingResponses(op) :
            /\ pending_txn' = p
            /\ firstRejected' = IF polls = 0 THEN IsRejection(p) ELSE firstRejected
            /\ allPending' = (allPending /\ IsPendingEmpty(p))
            /\ confirmedAt' = IF confirmedAt = 0 /\ IsConfirmedAnswer(p) THEN polls' ELSE confirmedAt
            /\ CASE PollOutcome(p) = "return" ->
                      /\ wres' = "Confirmed"
                      /\ waitRet' = <<p>>
                      /\ pc' = AfterWait(op)
                      /\ exc' = exc
                 [] PollOutcome(p) = "KeyError" ->
                      /\ wres' = "KeyError"
                      /\ Raise(KeyError("pool-error"))
                      /\ waitRet' = waitRet
                 [] PollOutcome(p) = "PoolError" ->
                      /\ wres' = "Rejected"
                      /\ Raise(PoolError(p))
                      /\ waitRet' = waitRet
                 [] OTHER ->
                      /\ pc' = "w_block"
                      /\ UNCHANGED <<wres, waitRet, exc>>
    /\ UNCHANGED <<op, args, buildVars, txID, timeout, lastRound, startRound, waits,
                   postVars>>

\* client.status_after_block(lastRound + 1); lastRound += 1
WaitBlock ==
    /\ pc = "w_block"
    /\ waits' = waits + 1
    /\ \/ /\ Raise(Upstream)
          /\ wres' = "Upstream"
          /\ lastRound' = lastRound
       \/ /\ lastRound' = lastRound + 1
          /\ pc' = "w_loop"
          /\ UNCHANGED <<wres, exc>>
    /\ UNCHANGED <<op, args, buildVars, txID, timeout, startRound, pending_txn, polls,
                   waitRet, firstRejected, allPending,
                   confirmedAt, postVars>>

\* the loop condition is false: raise the timeout exception
WaitTimeout ==
    /\ pc = "w_loop"
    /\ ~LoopCond(lastRound, startRound, timeout)
    /\ wres' = "TimedOut"
    /\ Raise(TimeoutError(txID, timeout))
    /\ UNCHANGED <<op, args, buildVars, txID, timeout, lastRound, startRound,
                   pending_txn, polls, waits, waitRet, firstRejected, allPending,
                   confirmedAt, postVars>>

(* ------------------------- after the wait ------------------------------ *)
\* response["application-index"] is not None and response["application-index"] > 0
AssertHolds(v) == v # None /\ v[1] > 0

AssertionError == [kind |-> "AssertionError", msg |-> << >>]

CreateAssert ==
    /\ pc = "c_assert"
    /\ LET response == waitRet[1] IN
        IF ~HasKey(response, "application-index")
        THEN /\ Raise(KeyError("application-index"))
             /\ ret' = ret
        ELSE IF AssertHolds(response["application-index"])
        THEN /\ ret' = response["application-index"]
             /\ pc' = "done"
             /\ exc' = exc
        ELSE /\ Raise(AssertionError)
             /\ ret' = ret
    /\ UNCHANGED <<op, args, buildVars, waitVars, glob_state, appInfoCalls>>

\* the scan over glob_state: the first entry whose decoded key matches
PoolTokenMatches(gs) == {i \in 1..Len(gs) : B64Decode(gs[i].key) = "pool_token_key"}

ScanPoolToken_FirstEntry(gs) ==
    IF Len(gs) = 0 THEN None ELSE <<gs[1].value.uint>>

ScanPoolToken(gs) ==
    IF PoolTokenMatches(gs) = {} THEN None
    ELSE LET i == CHOOSE j \in PoolTokenMatches(gs) :
                    \A k \in PoolTokenMatches(gs) : j <= k
         IN <<gs[i].value.uint>>

SetupReadState ==
    /\ pc = "s_appinfo"
    /\ appInfoCalls' = appInfoCalls + 1
    /\ \/ /\ Raise(Upstream)
          /\ UNCHANGED <<glob_state, ret>>
       \/ \E info \in AppInfos :
            IF ~HasKey(info.params, "global-state")
            THEN /\ Raise(KeyError("global-state"))
                 /\ UNCHANGED <<glob_state, ret>>
            ELSE /\ glob_state' = info.params["global-state"]
                 /\ ret' = ScanPoolToken(glob_state')
                 /\ pc' = "done"
                 /\ exc' = exc
    /\ UNCHANGED <<op, args, buildVars, waitVars>>

Next ==
    \/ CallWait
    \/ CallCreate
    \/ CallSetup
    \/ CallOptIn
    \/ CallSupply
    \/ CreateCompile
    \/ Build
    \/ AssignGroup
    \/ SignNext
    \/ Send
    \/ WaitStatus
    \/ WaitPoll
    \/ WaitBlock
    \/ WaitTimeout
    \/ CreateAssert
    \/ SetupReadState

Spec == Init /\ [][Next]_vars

(* ------------------------------ claims --------------------------------- *)
WaitErrorKinds == {"PoolError", "Timeout"}

\* C1: when every pending-transaction answer has confirmed-round 0 and an
\* empty pool-error, waitForTransaction with round budget T never returns a
\* result, never polls or waits more than T times, and ends (unless a node
\* call itself raises) with the timeout error after exactly T polls and T
\* waits for the next round.
C1_TimeoutAfterExactlyBudget ==
    (allPending /\ wres \notin {"none", "Upstream"}) =>
        /\ wres \in {"running", "TimedOut"}
        /\ waitRet = None
        /\ polls <= timeout
        /\ waits <= polls
        /\ wres = "TimedOut" =>
            /\ polls = timeout
            /\ waits = timeout
            /\ pc = "done"
            /\ exc = TimeoutError(txID, timeout)
        /\ (wres = "running" /\ pc = "w_loop") => waits = polls
        /\ pc = "w_loop" => (LoopCond(lastRound, startRound, timeout) <=> polls < timeout)

C1_Witness ==
    /\ allPending
    /\ wres = "TimedOut"
    /\ timeout = DefaultTimeout
    /\ polls = DefaultTimeout

\* C2: when the first pending-transaction answer is unconfirmed and carries
\* a non-empty pool-error, waitForTransaction raises the pool error with
\* that text at once: one poll, no status_after_block call, no result.
C2_RejectedOnFirstPoll ==
    firstRejected =>
        /\ wres = "Rejected"
        /\ pc = "done"
        /\ exc.kind = "PoolError"
        /\ exc.msg = <<pending_txn["pool-error"]>>
        /\ exc.msg[1] # ""
        /\ polls = 1
        /\ waits = 0
        /\ waitRet = None

C2_Witness ==
    /\ firstRejected
    /\ exc.kind = "PoolError"
    /\ exc.msg = <<"overspend">>
    /\ polls = 1

\* C3: when the first answer with confirmed-round > 0 arrives on poll N,
\* waitForTransaction returns that answer at poll N (N polls, N - 1 waits,
\* N within the budget), whatever pool-error it carries; and it returns
\* only such an answer.
C3_ReturnsAtFirstConfirmedPoll ==
    /\ confirmedAt > 0 =>
        /\ wres = "Confirmed"
        /\ waitRet = <<pending_txn>>
        /\ pending_txn["confirmed-round"] > 0
        /\ polls = confirmedAt
        /\ waits = confirmedAt - 1
        /\ confirmedAt <= timeout
        /\ exc.kind \notin WaitErrorKinds
    /\ wres = "Confirmed" => confirmedAt > 0

C3_Witness ==
    /\ confirmedAt = 2
    /\ wres = "Confirmed"
    /\ HasKey(pending_txn, "pool-error")
    /\ pending_txn["pool-error"] # ""

\* the member list as it was before assign_group_id
Ungrouped(ts) == [i \in 1..Len(ts) |-> [ts[i] EXCEPT !.group = None]]

GroupSize(o) == IF o = "setup" THEN 2 ELSE 4

\* C4: a Setup or Supply call submits its group in at most one submit call,
\* and that call carries all 2 (resp. 4) members; every member was signed
\* with the group identifier already assigned, the same one for all; no
\* state, failed or not, has a strict non-empty subset submitted.
C4_GroupSubmittedWhole ==
    Grouped(op) =>
        /\ Len(sent) <= 1
        /\ \A i \in 1..Len(signed) :
            /\ signed[i].transaction.group # None
            /\ signed[i].transaction.group = GroupDigest(Ungrouped(txns))
        /\ \A c \in 1..Len(sent) :
            /\ Len(sent[c]) = GroupSize(op)
            /\ Len(txns) = GroupSize(op)
            /\ \A i \in 1..GroupSize(op) :
                /\ sent[c][i].transaction.group = GroupDigest(Ungrouped(txns))
                /\ \E j \in 1..Len(sent[c]) : sent[c][j].transaction = txns[i]

C4_Witness ==
    /\ op = "setup"
    /\ Len(sent) = 1
    /\ Len(sent[1]) = 2
    /\ pc = "done"
    /\ exc.kind = "Timeout"

\* C5: Supply submits exactly four transactions in the order fee payment
\* of 2000 to the app address, token A transfer of qA, token B transfer of
\* qB, 'supply' application call naming tokenA, tokenB, poolToken; all
\* carry one group identifier and the submitted order is the order the
\* identifier was assigned over.
C5_SupplyGroupOrder ==
    (op = "supply" /\ sent # << >>) =>
        /\ Len(sent) = 1
        /\ Len(sent[1]) = 4
        /\ LET g == [i \in 1..4 |-> sent[1][i].transaction]
               app == get_application_address(args.appID)
           IN /\ g[1].type = "pay" /\ g[1].amt = 2000 /\ g[1].receiver = app
              /\ g[1].sender = args.supplier
              /\ g[2].type = "axfer" /\ g[2].index = args.tokenA /\ g[2].amt = args.qA
              /\ g[2].receiver = app /\ g[2].sender = args.supplier
              /\ g[3].type = "axfer" /\ g[3].index = args.tokenB /\ g[3].amt = args.qB
              /\ g[3].receiver = app /\ g[3].sender = args.supplier
              /\ g[4].type = "appl" /\ g[4].index = args.appID
              /\ g[4].app_args = <<"supply">>
              /\ g[4].foreign_assets = <<args.tokenA, args.tokenB, args.poolToken>>
              /\ g[4].sender = args.supplier
              /\ \A i \in 1..4 : g[i].group # None /\ g[i].group = g[1].group
              /\ g[1].group[1].digest = Ungrouped(g)
              /\ g = txns

C5_Witness ==
    /\ op = "supply"
    /\ Len(sent) = 1
    /\ args.qA # args.qB
    /\ args.tokenA # args.tokenB
    /\ wres = "Confirmed"

\* C6: Setup submits exactly two transactions, the funding payment then the
\* 'setup' application call, under one group identifier; the funding amount
\* is (100000 + 3*100000) + 3*1000 = 403000 whatever the arguments.
C6_SetupGroupFunding ==
    op = "setup" =>
        /\ Len(txns) > 0 => txns[1].amt = 403000
        /\ sent # << >> =>
            /\ Len(sent) = 1
            /\ Len(sent[1]) = 2
            /\ LET fund == sent[1][1].transaction
                   call == sent[1][2].transaction
               IN /\ fund.type = "pay"
                  /\ fund.amt = 403000
                  /\ fund.amt = (100000 + 3 * 100000) + 3 * 1000
                  /\ fund.sender = args.funder
                  /\ fund.receiver = get_application_address(args.appID)
                  /\ call.type = "appl"
                  /\ call.index = args.appID
                  /\ call.app_args = <<"setup">>
                  /\ call.foreign_assets = <<args.tokenA, args.tokenB>>
                  /\ fund.group # None
                  /\ fund.group = call.group

C6_Witness ==
    /\ op = "setup"
    /\ Len(sent) = 1
    /\ args.funder = "ADDR2"
    /\ args.tokenA # args.tokenB
    /\ sent[1][1].transaction.amt = 403000

\* C7: Create, once its transaction is confirmed, raises an assertion
\* failure and returns no id when the answer's application-index is
\* non-positive, null or absent; otherwise it returns exactly that index.
C7_CreateAssertsOnBadIndex ==
    (op = "create" /\ pc = "done" /\ wres = "Confirmed") =>
        LET response == waitRet[1] IN
        IF /\ HasKey(response, "application-index")
           /\ response["application-index"] # None
           /\ response["application-index"][1] > 0
        THEN exc = NoException /\ ret = response["application-index"]
        ELSE exc.kind = "AssertionError" /\ ret = None

\* C8: every call signs everything before it submits, submits at most once,
\* and once submitted ends in exactly one of Confirmed, Rejected, TimedOut
\* unless a node call raised; Rejected and TimedOut end the call as a
\* failure; a failed call has submitted at most once and stopped polling.
C8_CallLifecycle ==
    op \in {"create", "setup", "optin", "supply"} =>
        /\ Len(sent) <= 1
        /\ sent # << >> => (Len(txns) > 0 /\ Len(signed) = Len(txns))
        /\ polls > 0 => sent # << >>
        /\ wres \in {"Rejected", "TimedOut"} =>
                (pc = "done" /\ exc.kind \in WaitErrorKinds)
        /\ (pc = "done" /\ sent # << >> /\ exc.kind # "Upstream") =>
                wres \in {"Confirmed", "Rejected", "TimedOut"}

\* C9: an unconfirmed answer without any pool-error field does not fail the
\* waiter on that poll: it goes on to wait for the next round.
C9_AbsentPoolErrorKeepsWaiting ==
    (polls > 0 /\ HasKey(pending_txn, "confirmed-round")
        /\ pending_txn["confirmed-round"] = 0
        /\ ~HasKey(pending_txn, "pool-error")) =>
            /\ exc.kind # "KeyError"
            /\ wres \in {"running", "TimedOut", "Upstream"}

\* C10: Setup calls application-info only after its wait returned
\* Confirmed; a Rejected or TimedOut wait ends Setup with that error, no
\* application-info call and no identifier; an identifier it returns is the
\* uint of the first global-state entry whose decoded key is pool_token_key.
C10_SetupReadsStateAfterConfirm ==
    op = "setup" =>
        /\ appInfoCalls <= 1
        /\ appInfoCalls > 0 => wres = "Confirmed"
        /\ wres \in {"Rejected", "TimedOut"} =>
            /\ pc = "done"
            /\ exc.kind = (IF wres = "Rejected" THEN "PoolError" ELSE "Timeout")
            /\ appInfoCalls = 0
            /\ ret = None
        /\ ret # None =>
            /\ exc = NoException
            /\ appInfoCalls = 1
            /\ \E i \in 1..Len(glob_state) :
                /\ B64Decode(glob_state[i].key) = "pool_token_key"
                /\ ret = <<glob_state[i].value.uint>>
                /\ \A j \in 1..(i - 1) : B64Decode(glob_state[j].key) # "pool_token_key"

C10_Witness ==
    /\ op = "setup"
    /\ ret # None
    /\ Len(glob_state) = 2
    /\ B64Decode(glob_state[1].key) # "pool_token_key"
    /\ glob_state[1].value.uint # glob_state[2].value.uint

=============================================================================
